---- MODULE Spec2Model ----
(***************************************************************************)
(* Helpdesk ticketing backend: round-robin agent assignment and the ticket *)
(* lifecycle handlers (app/services/assignment.py, app/routers/tickets.py).*)
(*                                                                         *)
(* Every request is a coroutine whose only suspension points are its       *)
(* awaited store calls.  One action of the model is one store call of a    *)
(* handler together with the synchronous code that follows it up to the    *)
(* next await.  The store executes each call atomically.                   *)
(***************************************************************************)
EXTENDS Integers, Sequences, FiniteSets, TLC

\* Number of request slots (coroutines that may be in flight at once).
NumProcs == 2
\* Cursor updates explored per workload: sequential creations, concurrent
\* creations, creations under roster changes, and the ticket lifecycle.
SeqCreates == 4
ConcCreates == 4
RosterCreates == 2
LifeCreates == 1
\* Multi-step requests in flight at once in the ticket lifecycle (a delete is
\* one store call and interleaves with them freely).
LifeInFlight == 1
\* Tickets created while their details are fetched.
DetailCreates == 2
\* User documents inserted by signups.
SignupInserts == 4
\* Every handler, one request after another: tickets created and users
\* signed up.
AllCreates == 2
AllSignups == 1
\* Listing: tickets created, and the largest page and page size requested.
ListCreates == 2
MaxPage == 2
MaxPageSize == 2

Procs == 1..NumProcs

\* The agent roster in the store's natural order (app/seed_sample_agents.py).
AgentEmails == <<"agentA@example.com", "agentB@example.com", "agentC@example.com">>
AgentNames == <<"Agent A", "Agent B", "Agent C">>

\* The users collection: an administrator, an ordinary user, and agent A's
\* own account (same email as the agent document); id is the document's _id.
\* Tickets are created by the ordinary user; every user issues updates and
\* deletions.
UserDocs ==
    { [id |-> 1, email |-> "admin@example.com",  role |-> "admin"],
      [id |-> 2, email |-> "alice@example.com",  role |-> "user"],
      [id |-> 3, email |-> "agentA@example.com", role |-> "agent"] }

\* Request bodies of POST /tickets (TicketCreate: title, description).
TicketInputs == { [title |-> "printer", description |-> "jammed"] }

\* The values a PATCH body carries under "status".
StatusInputs == {"open", "in_progress", "closed", "bogus"}

\* Ticket identifiers as they arrive in the path: 1, 2, ... stand for
\* well-formed ObjectId strings (stored or not), 0 for a malformed string.
IdInputs == 0..LifeCreates

\* Python's None, as returned by find_one on no match.
None == [id |-> 0]
NoUser == [id |-> 0, email |-> "", role |-> ""]
NoResp == [code |-> 0, detail |-> "", body |-> None]
NoOut == [op |-> "none", by |-> "", calls |-> 0, resp |-> NoResp]

VARIABLES
    agents,        \* db.agents: sequence of [email, name, is_active]
    system_state,  \* db.system_state: sequence of [last_assigned_index]
    tickets,       \* db.tickets: function from stored id to ticket document
    nextId,        \* the next ObjectId the driver generates on insert
    users,         \* db.users
    req,           \* the request each slot is serving, with its locals
    out,           \* the response the last step sent, if it sent one, with the
                   \* number of store calls its request made
    log            \* history: one entry per cursor update, in store order,
                   \* with the id of the ticket inserted for it

vars == <<agents, system_state, tickets, nextId, users, req, out, log>>

Idle ==
    [pc |-> "idle", op |-> "none", by |-> "", user |-> NoUser, tid |-> 0, input |-> None,
     new_status |-> "", agents |-> <<>>, next_index |-> -1, agent |-> None,
     ticket_data |-> None, slot |-> 0, calls |-> 0,
     query |-> None, skip |-> 0, page |-> 0, page_size |-> 0, total |-> 0,
     ticket |-> None, agent_info |-> None]

----------------------------------------------------------------------------
(* Store primitives *)

\* Variant: the query forgets the is_active filter.
FindAllAgents(coll) == coll

\* db.agents.find({"is_active": True}).to_list(): the active agents in
\* natural order.
IsActive(a) == a.is_active
FindActiveAgents(coll) == SelectSeq(coll, IsActive)

\* Variant: the cursor's default is 0 instead of -1.
LastAssignedIndexFromZero(coll) ==
    IF coll = <<>> THEN 0 ELSE coll[1].last_assigned_index

\* Variant: the write inserts a new document every time.
UpsertStateInsert(coll, idx) == Append(coll, [last_assigned_index |-> idx])

\* Variant: any identifier string is taken for an ObjectId.
ValidObjectIdAny(t) == TRUE

\* db.system_state.find_one({}) or {}, then .get("last_assigned_index", -1).
LastAssignedIndex(coll) ==
    IF coll = <<>> THEN -1 ELSE coll[1].last_assigned_index

\* db.system_state.update_one({}, {"$set": {...}}, upsert=True): the first
\* document is updated; an empty collection gets the document inserted.
UpsertState(coll, idx) ==
    IF coll = <<>>
    THEN <<[last_assigned_index |-> idx]>>
    ELSE [coll EXCEPT ![1].last_assigned_index = idx]

\* db["tickets"].find_one({"_id": oid})
FindOne(coll, oid) == IF oid \in DOMAIN coll THEN coll[oid] ELSE None

\* db["tickets"].insert_one(doc) with the driver-generated id
InsertOne(coll, oid, doc) ==
    [i \in DOMAIN coll \cup {oid} |-> IF i = oid THEN doc ELSE coll[i]]

\* Variant: the write goes to every ticket (update_many with no filter).
SetStatusAll(coll, oid, s) == [i \in DOMAIN coll |-> [coll[i] EXCEPT !.status = s]]

\* Variant: the write upserts.
SetStatusUpsert(coll, oid, s) ==
    IF oid \in DOMAIN coll THEN [coll EXCEPT ![oid].status = s]
    ELSE [i \in DOMAIN coll \cup {oid} |->
             IF i = oid THEN [id |-> oid, status |-> s] ELSE coll[i]]

\* db["tickets"].update_one({"_id": oid}, {"$set": {"status": s}}): no upsert,
\* so nothing happens when no document matches.
SetStatus(coll, oid, s) ==
    IF oid \in DOMAIN coll THEN [coll EXCEPT ![oid].status = s] ELSE coll

\* db["tickets"].delete_one({"_id": oid})
DeleteOne(coll, oid) == [i \in DOMAIN coll \ {oid} |-> coll[i]]

\* HTTPException(status_code, detail) and a normal return
Fail(code, detail) == [code |-> code, detail |-> detail, body |-> None]
Ok(code, body) == [code |-> code, detail |-> "", body |-> body]

\* The handler in slot p returns (or raises) after the store call of this
\* step: the response is sent and the slot's locals are gone.
Return(p, resp) ==
    /\ req' = [req EXCEPT ![p] = Idle]
    /\ out' = [op |-> req[p].op, by |-> req[p].by, calls |-> req[p].calls + 1,
               resp |-> resp]

\* The handler in slot p suspends at its next await with locals r.
Await(p, r) ==
    /\ req' = [req EXCEPT ![p] = r]
    /\ out' = NoOut

\* A handler that holds no slot yet returns (or raises) within the step in
\* which its request is taken up, after n store calls.
Respond(op, u, n, resp) ==
    /\ out' = [op |-> op, by |-> u.email, calls |-> n, resp |-> resp]
    /\ UNCHANGED req

Free(p) == req[p].pc = "idle"

\* A new request is served by the first free slot (slots are interchangeable).
Accepts(p) == Free(p) /\ \A q \in Procs : q < p => ~Free(q)

----------------------------------------------------------------------------
(* assign_agent_round_robin *)

\* Variant: the increment without the modulus.
NextIndexNoWrap(last_index, n) == last_index + 1

\* next_index = (last_index + 1) % len(agents)
NextIndex(last_index, n) == (last_index + 1) % n

\* next_agent = agents[next_index]: a list lookup, which counts a negative
\* index from the end and raises IndexError (None here) out of range.
AgentAt(list, i) ==
    IF i \in 0..(Len(list) - 1) THEN list[i + 1]
    ELSE IF i \in (0 - Len(list))..(0 - 1) THEN list[Len(list) + i + 1]
    ELSE None

\* POST /tickets: get_current_user has resolved the requester u, and
\* agents = await db.agents.find({"is_active": True}).to_list(length=None)
\* if not agents: return None   -> create_ticket raises 500
CreateTicket(p, u, t) ==
    /\ Accepts(p)
    /\ u \in users
    /\ LET found == FindActiveAgents(agents) IN
         IF found = <<>>
         THEN Respond("create", u, 1, Fail(500, "No agents available"))
         ELSE Await(p, [Idle EXCEPT !.pc = "find_state", !.op = "create",
                                    !.by = u.email, !.user = u, !.input = t, !.agents = found,
                                    !.calls = 1])
    /\ UNCHANGED <<agents, system_state, tickets, nextId, users, log>>

\* state = await db.system_state.find_one({}) or {}
\* last_index, next_index and next_agent are computed before the next await.
FindState(p) ==
    /\ req[p].pc = "find_state"
    /\ LET last_index == LastAssignedIndex(system_state)
           next_index == NextIndex(last_index, Len(req[p].agents))
           next_agent == AgentAt(req[p].agents, next_index)
       IN  IF next_agent = None
           THEN Return(p, Fail(500, "IndexError"))
           ELSE Await(p, [req[p] EXCEPT !.pc = "update_state",
                                        !.next_index = next_index,
                                        !.agent = next_agent,
                                        !.calls = @ + 1])
    /\ UNCHANGED <<agents, system_state, tickets, nextId, users, log>>

\* Variant: the ticket goes to the head of the roster, whatever the engine
\* returned.
TicketDataFirstAgent(r, now) ==
    [id |-> 0,
     title |-> r.input.title,
     description |-> r.input.description,
     created_by |-> r.user.email,
     assigned_to |-> r.agents[1].email,
     status |-> "open",
     priority |-> "normal",
     created_at |-> now]

\* The ticket document create_ticket builds from the returned agent; the
\* store adds the id on insert.
TicketData(r, now) ==
    [id |-> 0,
     title |-> r.input.title,
     description |-> r.input.description,
     created_by |-> r.user.email,
     assigned_to |-> r.agent.email,
     status |-> "open",
     priority |-> "normal",
     created_at |-> now]

\* await db.system_state.update_one({}, {"$set": ...}, upsert=True)
\* The engine returns next_agent; create_ticket stamps the ticket data.
UpdateState(p) ==
    /\ req[p].pc = "update_state"
    /\ system_state' = UpsertState(system_state, req[p].next_index)
    /\ log' = Append(log, [next |-> req[p].next_index, tid |-> 0])
    /\ Await(p, [Idle EXCEPT !.pc = "insert", !.op = "create", !.by = req[p].by,
                              !.agent = req[p].agent,
                              !.ticket_data = TicketData(req[p], Len(log) + 1),
                              !.slot = Len(log) + 1,
                              !.calls = req[p].calls + 1])
    /\ UNCHANGED <<agents, tickets, nextId, users>>

\* result = await db["tickets"].insert_one(ticket_data)
InsertTicket(p) ==
    /\ req[p].pc = "insert"
    /\ tickets' = InsertOne(tickets, nextId, [req[p].ticket_data EXCEPT !.id = nextId])
    /\ nextId' = nextId + 1
    /\ log' = [log EXCEPT ![req[p].slot].tid = nextId]
    /\ Await(p, [Idle EXCEPT !.pc = "find_created", !.op = "create",
                              !.by = req[p].by, !.tid = nextId,
                              !.calls = req[p].calls + 1])
    /\ UNCHANGED <<agents, system_state, users>>

\* created_ticket = await db["tickets"].find_one({"_id": result.inserted_id})
\* return serialize_mongo_doc(created_ticket)
FindCreated(p) ==
    /\ req[p].pc = "find_created"
    /\ Return(p, Ok(200, FindOne(tickets, req[p].tid)))
    /\ UNCHANGED <<agents, system_state, tickets, nextId, users, log>>

----------------------------------------------------------------------------
(* PATCH /tickets/{ticket_id}: update_ticket_status *)

\* oid = ObjectId(ticket_id) raises on a string that is no ObjectId.
ValidObjectId(t) == t >= 1

\* Variant: the assigned agent may update too.
UpdateCheckAssignee(ticket, user, new_status) ==
    IF ticket = None
    THEN Fail(404, "Ticket not found")
    ELSE IF /\ user.role # "admin"
            /\ ticket.created_by # user.email
            /\ ticket.assigned_to # user.email
    THEN Fail(403, "Not authorized to update this ticket")
    ELSE IF new_status \notin {"open", "in_progress", "closed"}
    THEN Fail(400, "Invalid status value")
    ELSE NoResp

\* Variant: the status value is not checked.
UpdateCheckAnyStatus(ticket, user, new_status) ==
    IF ticket = None
    THEN Fail(404, "Ticket not found")
    ELSE IF user.role # "admin" /\ ticket.created_by # user.email
    THEN Fail(403, "Not authorized to update this ticket")
    ELSE NoResp

\* The checks between the lookup and the write: not found, authorization,
\* status value.  NoResp means every check passed.
UpdateCheck(ticket, user, new_status) ==
    IF ticket = None
    THEN Fail(404, "Ticket not found")
    ELSE IF user.role # "admin" /\ ticket.created_by # user.email
    THEN Fail(403, "Not authorized to update this ticket")
    ELSE IF new_status \notin {"open", "in_progress", "closed"}
    THEN Fail(400, "Invalid status value")
    ELSE NoResp

\* PATCH arrives from requester u; the identifier is parsed, then
\* ticket = await db["tickets"].find_one({"_id": oid}), then the checks.
\* current_user is not read again after the authorization check.
UpdateTicketStatus(p, u, t, s) ==
    /\ Accepts(p)
    /\ u \in users
    /\ IF ~ValidObjectId(t)
       THEN Respond("update", u, 0, Fail(400, "Invalid ticket id"))
       ELSE LET check == UpdateCheck(FindOne(tickets, t), u, s) IN
            IF check = NoResp
            THEN Await(p, [Idle EXCEPT !.pc = "upd_write", !.op = "update",
                                       !.tid = t, !.new_status = s, !.calls = 1])
            ELSE Respond("update", u, 1, check)
    /\ UNCHANGED <<agents, system_state, tickets, nextId, users, log>>

\* await db["tickets"].update_one({"_id": oid}, {"$set": {"status": new_status}})
UpdWrite(p) ==
    /\ req[p].pc = "upd_write"
    /\ tickets' = SetStatus(tickets, req[p].tid, req[p].new_status)
    /\ Await(p, [req[p] EXCEPT !.pc = "upd_refind", !.new_status = "",
                                !.calls = @ + 1])
    /\ UNCHANGED <<agents, system_state, nextId, users, log>>

\* updated = await db["tickets"].find_one({"_id": oid}); return it
UpdRefind(p) ==
    /\ req[p].pc = "upd_refind"
    /\ Return(p, Ok(200, FindOne(tickets, req[p].tid)))
    /\ UNCHANGED <<agents, system_state, tickets, nextId, users, log>>

----------------------------------------------------------------------------
(* DELETE /tickets/{ticket_id}: delete_ticket *)

\* Variant: the ticket's creator may delete it as well.
DeleteTicketByOwner(u, t) ==
    /\ u \in users
    /\ IF u.role # "admin" /\ ~(t \in DOMAIN tickets /\ tickets[t].created_by = u.email)
       THEN /\ Respond("delete", u, 0, Fail(403, "Admins only can delete tickets"))
            /\ UNCHANGED tickets
       ELSE IF ~ValidObjectId(t)
       THEN /\ Respond("delete", u, 0, Fail(400, "Invalid ticket id"))
            /\ UNCHANGED tickets
       ELSE /\ tickets' = DeleteOne(tickets, t)
            /\ IF t \in DOMAIN tickets
               THEN Respond("delete", u, 1, Ok(204, None))
               ELSE Respond("delete", u, 1, Fail(404, "Ticket not found"))
    /\ UNCHANGED <<agents, system_state, nextId, users, log>>

\* DELETE arrives from requester u: the role check, the identifier check,
\* then result = await db["tickets"].delete_one({"_id": oid});
\* deleted_count == 0 -> 404, otherwise 204 with no body.
DeleteTicket(u, t) ==
    /\ u \in users
    /\ IF u.role # "admin"
       THEN /\ Respond("delete", u, 0, Fail(403, "Admins only can delete tickets"))
            /\ UNCHANGED tickets
       ELSE IF ~ValidObjectId(t)
       THEN /\ Respond("delete", u, 0, Fail(400, "Invalid ticket id"))
            /\ UNCHANGED tickets
       ELSE /\ tickets' = DeleteOne(tickets, t)
            /\ IF t \in DOMAIN tickets
               THEN Respond("delete", u, 1, Ok(204, None))
               ELSE Respond("delete", u, 1, Fail(404, "Ticket not found"))
    /\ UNCHANGED <<agents, system_state, nextId, users, log>>

----------------------------------------------------------------------------
(* GET /tickets/{ticket_id}: get_ticket_detail *)

\* Variant: the lookup returns the head of the registry.
FindAgentFirst(coll, email) == IF coll = <<>> THEN None ELSE coll[1]

\* db["agents"].find_one({"email": assigned_email}): the first agent document
\* with that email, active or not.
FindAgentByEmail(coll, email) ==
    LET hits == {j \in 1..Len(coll) : coll[j].email = email}
    IN  IF hits = {} THEN None
        ELSE coll[CHOOSE j \in hits : \A k \in hits : j <= k]

\* agent_info: email and name of the agent found, the email alone otherwise.
AgentInfo(agent, assigned_email) ==
    IF agent # None
    THEN [email |-> agent.email, name |-> agent.name]
    ELSE [email |-> assigned_email]

\* The ticket with the two keys the handler adds.
DetailBody(ticket, agent_info, comments) ==
    [f \in DOMAIN ticket \cup {"assigned_agent", "latest_public_comments"} |->
        IF f = "assigned_agent" THEN agent_info
        ELSE IF f = "latest_public_comments" THEN comments
        ELSE ticket[f]]

\* GET arrives from requester u: the identifier is parsed, then
\* ticket = await db["tickets"].find_one({"_id": oid})
GetTicketDetail(p, u, t) ==
    /\ Accepts(p)
    /\ u \in users
    /\ IF ~ValidObjectId(t)
       THEN Respond("detail", u, 0, Fail(400, "Invalid ticket id"))
       ELSE LET ticket == FindOne(tickets, t) IN
            IF ticket = None
            THEN Respond("detail", u, 1, Fail(404, "Ticket not found"))
            ELSE Await(p, [Idle EXCEPT
                             !.pc = IF ticket.assigned_to # ""
                                    THEN "detail_agent" ELSE "detail_comments",
                             !.op = "detail", !.by = u.email, !.tid = t,
                             !.ticket = ticket, !.calls = 1])
    /\ UNCHANGED <<agents, system_state, tickets, nextId, users, log>>

\* agent = await db["agents"].find_one({"email": assigned_email})
DetailAgent(p) ==
    /\ req[p].pc = "detail_agent"
    /\ Await(p, [req[p] EXCEPT
                    !.pc = "detail_comments",
                    !.agent_info = AgentInfo(FindAgentByEmail(agents, req[p].ticket.assigned_to),
                                             req[p].ticket.assigned_to),
                    !.calls = @ + 1])
    /\ UNCHANGED <<agents, system_state, tickets, nextId, users, log>>

\* comments = await comments_cursor.to_list(length=5): no handler writes
\* db["comments"], so the list is empty; then the ticket is returned.
DetailComments(p) ==
    /\ req[p].pc = "detail_comments"
    /\ Return(p, Ok(200, DetailBody(req[p].ticket, req[p].agent_info, <<>>)))
    /\ UNCHANGED <<agents, system_state, tickets, nextId, users, log>>

----------------------------------------------------------------------------
(* GET /tickets: list_tickets *)

\* The characters of the texts that occur in tickets and in searches.
Chars(s) ==
    CASE s = "printer" -> <<"p", "r", "i", "n", "t", "e", "r">>
      [] s = "jammed"  -> <<"j", "a", "m", "m", "e", "d">>
      [] s = "Fax"     -> <<"F", "a", "x">>
      [] s = "dead"    -> <<"d", "e", "a", "d">>
      [] s = "vpn"     -> <<"v", "p", "n">>
      [] s = "FAX"     -> <<"F", "A", "X">>
      [] s = "fax"     -> <<"f", "a", "x">>
      [] OTHER         -> <<>>

Lower(c) ==
    CASE c = "F" -> "f"
      [] c = "A" -> "a"
      [] c = "X" -> "x"
      [] OTHER   -> c

\* {"$regex": q, "$options": "i"} for a pattern of plain letters: the
\* pattern occurs somewhere in the text, letter case ignored.
RegexSearch(q, text) ==
    LET pat == Chars(q)
        txt == Chars(text)
    IN  \E i \in 1..(Len(txt) - Len(pat) + 1) :
            \A j \in 1..Len(pat) : Lower(txt[i + j - 1]) = Lower(pat[j])

\* Variant: mine looks at the creator only.
MatchesCreatorOnly(doc, c) ==
    /\ c.mine => doc.created_by = c.email
    /\ c.status # "" => doc.status = c.status
    /\ c.priority # "" => doc.priority = c.priority
    /\ c.q # "" => RegexSearch(c.q, doc.title) \/ RegexSearch(c.q, doc.description)

\* The query built from the conditions: {"$and": conditions}, or {} when
\* there is none.  A parameter that is None or "" adds no condition.
Matches(doc, c) ==
    /\ c.mine => (doc.created_by = c.email \/ doc.assigned_to = c.email)
    /\ c.status # "" => doc.status = c.status
    /\ c.priority # "" => doc.priority = c.priority
    /\ c.q # "" => RegexSearch(c.q, doc.title) \/ RegexSearch(c.q, doc.description)

\* db["tickets"].count_documents(query)
CountDocuments(coll, c) == Cardinality({i \in DOMAIN coll : Matches(coll[i], c)})

\* .sort("created_at", -1): the documents with the given ids, latest first.
RECURSIVE SortCreatedDesc(_, _)
SortCreatedDesc(coll, ids) ==
    IF ids = {} THEN <<>>
    ELSE LET m == CHOOSE i \in ids :
                      \A j \in ids : coll[j].created_at <= coll[i].created_at
         IN  <<coll[m]>> \o SortCreatedDesc(coll, ids \ {m})

\* db["tickets"].find(query).sort("created_at", -1).skip(skip).limit(n)
FindPage(coll, c, skip, n) ==
    LET sorted == SortCreatedDesc(coll, {i \in DOMAIN coll : Matches(coll[i], c)})
        last == IF skip + n < Len(sorted) THEN skip + n ELSE Len(sorted)
    IN  SubSeq(sorted, skip + 1, last)

\* Variant: the offset counts the requested page as well.
SkipFromPage(page, page_size) == page * page_size

\* skip = (page - 1) * page_size
Skip(page, page_size) == (page - 1) * page_size

\* GET /tickets arrives from requester u with parameters c (mine, status,
\* priority, q), page and page_size; the query is built and
\* total = await db["tickets"].count_documents(query)
ListTickets(p, u, c, page, page_size) ==
    /\ Accepts(p)
    /\ u \in users
    /\ LET query == [mine |-> c.mine, email |-> u.email, status |-> c.status,
                      priority |-> c.priority, q |-> c.q]
       IN  Await(p, [Idle EXCEPT !.pc = "list_find", !.op = "list", !.by = u.email,
                                  !.query = query,
                                  !.skip = Skip(page, page_size),
                                  !.page = page, !.page_size = page_size,
                                  !.total = CountDocuments(tickets, query),
                                  !.calls = 1])
    /\ UNCHANGED <<agents, system_state, tickets, nextId, users, log>>

\* items = await cursor.to_list(length=page_size); return the page
ListFind(p) ==
    /\ req[p].pc = "list_find"
    /\ Return(p, Ok(200, [items |-> FindPage(tickets, req[p].query, req[p].skip,
                                              req[p].page_size),
                           total |-> req[p].total,
                           page |-> req[p].page,
                           page_size |-> req[p].page_size]))
    /\ UNCHANGED <<agents, system_state, tickets, nextId, users, log>>

----------------------------------------------------------------------------
(* POST /auth/signup: signup *)

\* The emails submitted: one registered already, two new.
SignupEmails == {"alice@example.com", "bob@example.com", "carol@example.com"}

\* db["users"].find_one({"email": email})
FindUser(coll, email) ==
    IF \E u \in coll : u.email = email
    THEN CHOOSE u \in coll : u.email = email
    ELSE NoUser

\* The document signup inserts: it has no role key, so .get("role") on it
\* gives None (the empty role here).
UserDict(oid, email) == [id |-> oid, email |-> email, role |-> ""]

\* POST /auth/signup arrives with email e:
\* existing_user = await db["users"].find_one({"email": user.email})
Signup(p, e) ==
    /\ Accepts(p)
    /\ IF FindUser(users, e) # NoUser
       THEN Respond("signup", [email |-> e], 1, Fail(400, "Email already registered"))
       ELSE Await(p, [Idle EXCEPT !.pc = "signup_insert", !.op = "signup",
                                  !.by = e, !.calls = 1])
    /\ UNCHANGED <<agents, system_state, tickets, nextId, users, log>>

\* result = await db["users"].insert_one(user_dict); users are never
\* deleted, so the new id is the number of documents plus one.
SignupInsert(p) ==
    /\ req[p].pc = "signup_insert"
    /\ LET oid == Cardinality(users) + 1 IN
         /\ users' = users \cup {UserDict(oid, req[p].by)}
         /\ Return(p, Ok(201, [id |-> oid, email |-> req[p].by]))
    /\ UNCHANGED <<agents, system_state, tickets, nextId, log>>

----------------------------------------------------------------------------
(* Environment *)

\* A request is aborted at a suspension point (client gone, worker killed):
\* the coroutine never resumes and nothing is undone.
Abort(p) ==
    /\ ~Free(p)
    /\ req' = [req EXCEPT ![p] = Idle]
    /\ out' = [op |-> req[p].op, by |-> req[p].by, calls |-> req[p].calls,
               resp |-> Fail(0, "aborted")]
    /\ UNCHANGED <<agents, system_state, tickets, nextId, users, log>>

\* An administrator activates or deactivates an agent in the registry.
SetActive(i, b) ==
    /\ agents[i].is_active # b
    /\ agents' = [agents EXCEPT ![i].is_active = b]
    /\ out' = NoOut
    /\ UNCHANGED <<system_state, tickets, nextId, users, req, log>>

----------------------------------------------------------------------------
(* Initial states *)

AgentDoc(i, active) ==
    [name |-> AgentNames[i], email |-> AgentEmails[i], is_active |-> active]

Init ==
    /\ \E act \in [1..Len(AgentEmails) -> BOOLEAN] :
         agents = [i \in 1..Len(AgentEmails) |-> AgentDoc(i, act[i])]
    /\ system_state = <<>>
    /\ tickets = << >>
    /\ nextId = 1
    /\ users = UserDocs
    /\ req = [p \in Procs |-> Idle]
    /\ out = NoOut
    /\ log = <<>>

----------------------------------------------------------------------------
(* Sequential creations: a request starts only when none is in flight. *)

NoneInFlight == \A p \in Procs : Free(p)

\* Creations that have not yet written the cursor.
Pending == {p \in Procs : req[p].pc \in {"find_state", "update_state"}}

Creators == {u \in users : u.role = "user"}

\* A POST /tickets arrives, while fewer than limit cursor updates are done or due.
Create(limit) ==
    /\ Len(log) + Cardinality(Pending) < limit
    /\ \E p \in Procs, u \in Creators, t \in TicketInputs : CreateTicket(p, u, t)

CreateSteps(p) ==
    \/ FindState(p)
    \/ UpdateState(p)
    \/ InsertTicket(p)
    \/ FindCreated(p)

SeqCreate ==
    /\ NoneInFlight
    /\ Create(SeqCreates)

SeqNext ==
    \/ SeqCreate
    \/ \E p \in Procs : CreateSteps(p)

SpecSeq == Init /\ [][SeqNext]_vars

----------------------------------------------------------------------------
(* Concurrent requests against a fixed roster, every request running to    *)
(* completion.                                                             *)

ConcCreate == Create(ConcCreates)

ConcNext ==
    \/ ConcCreate
    \/ \E p \in Procs : CreateSteps(p)

SpecConc == Init /\ [][ConcNext]_vars

----------------------------------------------------------------------------
(* Sequential creations, any of which may be aborted in flight. *)

AbortNext ==
    \/ SeqCreate
    \/ \E p \in Procs : CreateSteps(p) \/ Abort(p)

SpecAbort == Init /\ [][AbortNext]_vars

----------------------------------------------------------------------------
(* Concurrent creations while administrators change the roster. *)

RosterCreate == Create(RosterCreates)

RosterNext ==
    \/ RosterCreate
    \/ \E p \in Procs : CreateSteps(p)
    \/ \E i \in 1..Len(AgentEmails), b \in BOOLEAN : SetActive(i, b)

SpecRoster == Init /\ [][RosterNext]_vars

----------------------------------------------------------------------------
(* The ticket lifecycle: creations, status updates and deletions running   *)
(* concurrently.                                                           *)

UpdateSteps(p) ==
    \/ UpdWrite(p)
    \/ UpdRefind(p)

Admits == Cardinality({p \in Procs : ~Free(p)}) < LifeInFlight

Update ==
    /\ Admits
    /\ \E p \in Procs, u \in users, t \in IdInputs, s \in StatusInputs :
           UpdateTicketStatus(p, u, t, s)

Delete == \E u \in users, t \in IdInputs : DeleteTicket(u, t)

LifeCreate == Admits /\ Create(LifeCreates)

Next ==
    \/ LifeCreate
    \/ Update
    \/ Delete
    \/ \E p \in Procs : CreateSteps(p) \/ UpdateSteps(p)

\* The store as seeded: every agent active.
Seeded == Init /\ \A i \in 1..Len(agents) : agents[i].is_active

Spec == Seeded /\ [][Next]_vars

----------------------------------------------------------------------------
(* Listing: tickets are created and closed one writer at a time while one   *)
(* listing at a time pages through them.                                    *)

\* Request bodies of the creations listed, in order of arrival.
ListInputs ==
    << [title |-> "printer", description |-> "jammed"],
       [title |-> "Fax",     description |-> "dead"],
       [title |-> "vpn",     description |-> "FAX"] >>

\* Parameter combinations of GET /tickets ("" stands for a parameter left out).
ListQueries ==
    { [mine |-> TRUE,  status |-> "",       priority |-> "",       q |-> ""],
      [mine |-> FALSE, status |-> "",       priority |-> "",       q |-> ""],
      [mine |-> FALSE, status |-> "open",   priority |-> "",       q |-> ""],
      [mine |-> TRUE,  status |-> "closed", priority |-> "",       q |-> ""],
      [mine |-> FALSE, status |-> "",       priority |-> "high",   q |-> ""],
      [mine |-> FALSE, status |-> "",       priority |-> "",       q |-> "fax"],
      [mine |-> TRUE,  status |-> "open",   priority |-> "normal", q |-> "fax"] }

\* The page sizes requested: the smallest and the largest.
PageSizes == {1, MaxPageSize}

WriterInFlight == \E p \in Procs : req[p].op \in {"create", "update"}
ListInFlight == \E p \in Procs : req[p].op = "list"

ListCreate ==
    /\ ~WriterInFlight
    /\ Len(log) < ListCreates
    /\ \E p \in Procs, u \in Creators :
           CreateTicket(p, u, ListInputs[(Len(log) % Len(ListInputs)) + 1])

\* An administrator closes an open ticket.
ListClose ==
    /\ ~WriterInFlight
    /\ \E p \in Procs, u \in users, t \in DOMAIN tickets :
           /\ u.role = "admin"
           /\ tickets[t].status = "open"
           /\ UpdateTicketStatus(p, u, t, "closed")

List ==
    /\ ~ListInFlight
    /\ \E p \in Procs, u \in users, c \in ListQueries,
          page \in 1..MaxPage, page_size \in PageSizes :
           ListTickets(p, u, c, page, page_size)

ListNext ==
    \/ ListCreate
    \/ ListClose
    \/ List
    \/ \E p \in Procs : CreateSteps(p) \/ UpdateSteps(p) \/ ListFind(p)

SpecList == Seeded /\ [][ListNext]_vars

----------------------------------------------------------------------------
(* Details: tickets are created one at a time while their details are     *)
(* fetched one at a time; nothing else touches a ticket.                    *)

DetailIds == 0..DetailCreates

DetailSteps(p) ==
    \/ DetailAgent(p)
    \/ DetailComments(p)

DetailInFlight == \E p \in Procs : req[p].op = "detail"

DetailCreate == ~WriterInFlight /\ Create(DetailCreates)

Detail ==
    /\ ~DetailInFlight
    /\ \E p \in Procs, u \in users, t \in DetailIds : GetTicketDetail(p, u, t)

DetailNext ==
    \/ DetailCreate
    \/ Detail
    \/ \E p \in Procs : CreateSteps(p) \/ DetailSteps(p)

SpecDetail == Seeded /\ [][DetailNext]_vars

----------------------------------------------------------------------------
(* Concurrent signups. *)

SignupsDue == Cardinality({p \in Procs : req[p].pc = "signup_insert"})

SignupRequest ==
    /\ Cardinality(users) + SignupsDue < Cardinality(UserDocs) + SignupInserts
    /\ \E p \in Procs, e \in SignupEmails : Signup(p, e)

SignupNext ==
    \/ SignupRequest
    \/ \E p \in Procs : SignupInsert(p)

SpecSignup == Seeded /\ [][SignupNext]_vars

----------------------------------------------------------------------------
(* Every handler: requests of every kind arrive one after another.        *)

AllIds == 0..AllCreates

\* The requesters: the accounts present from the start.
AllUsers == UserDocs

AllCreate == NoneInFlight /\ Create(AllCreates)

AllUpdate ==
    /\ NoneInFlight
    /\ \E p \in Procs, u \in AllUsers, t \in AllIds, s \in StatusInputs :
           UpdateTicketStatus(p, u, t, s)

AllDelete ==
    /\ NoneInFlight
    /\ \E u \in AllUsers, t \in AllIds : DeleteTicket(u, t)

AllDetail ==
    /\ NoneInFlight
    /\ \E p \in Procs, u \in AllUsers, t \in AllIds : GetTicketDetail(p, u, t)

AllList ==
    /\ NoneInFlight
    /\ \E p \in Procs, u \in AllUsers, c \in ListQueries, page \in 1..MaxPage :
           ListTickets(p, u, c, page, MaxPageSize)

AllSignup ==
    /\ NoneInFlight
    /\ Cardinality(users) < Cardinality(UserDocs) + AllSignups
    /\ \E p \in Procs, e \in SignupEmails : Signup(p, e)

AllNext ==
    \/ AllCreate
    \/ AllUpdate
    \/ AllDelete
    \/ AllDetail
    \/ AllList
    \/ AllSignup
    \/ \E p \in Procs : \/ CreateSteps(p)
                         \/ UpdateSteps(p)
                         \/ DetailSteps(p)
                         \/ ListFind(p)
                         \/ SignupInsert(p)

SpecAll == Seeded /\ [][AllNext]_vars

----------------------------------------------------------------------------
(* Properties *)

\* The active roster as the store holds it now, and its size K.
Roster == SelectSeq(agents, IsActive)
K == Len(Roster)
NoActiveAgent == \A i \in 1..Len(agents) : ~agents[i].is_active

\* Cursor updates whose request was aborted before its ticket insert.
Skipped == {i \in 1..Len(log) : log[i].tid = 0 /\ \A p \in Procs : req[p].slot # i}

\* The number of stored tickets assigned to the agent with email e.
Load(e) == Cardinality({i \in DOMAIN tickets : tickets[i].assigned_to = e})

\* C1: with a fixed roster of K >= 1 active agents and the cursor initially
\* unset, creations executed one after another assign the i-th ticket
\* (0-indexed) to roster[i mod K].  Ticket ids count the inserts from 1.
C1_RoundRobin ==
    \A i \in DOMAIN tickets :
        tickets[i].assigned_to = Roster[((i - 1) % K) + 1].email

\* Roster [A, B, C]: the fourth sequential creation is assigned A again.
C1_Witness ==
    /\ K = 3
    /\ 4 \in DOMAIN tickets
    /\ tickets[3].assigned_to = "agentC@example.com"
    /\ tickets[4].assigned_to = "agentA@example.com"

\* C2: for any interleaving of concurrent creations against a fixed roster,
\* the rotation indices written by the creations are consecutive values
\* modulo K: no two creations compute from the same pre-increment cursor.
C2_ConsecutiveIndices ==
    \A i \in 1..Len(log) : log[i].next = (i - 1) % K

\* C3: after any interleaving of completed creations against a fixed roster,
\* the numbers of tickets of any two active agents differ by at most 1.
C3_FairDistribution ==
    NoneInFlight =>
        \A a, b \in 1..K : Load(Roster[a].email) - Load(Roster[b].email) <= 1

\* C4: when no agent is active, a ticket creation fails with 500 "No agents
\* available" and leaves the cursor (also its absence), the tickets and the
\* request slots as they were.
C4_NoAgentsAvailable ==
    [][\A p \in Procs, u \in users, t \in TicketInputs :
          (NoActiveAgent /\ CreateTicket(p, u, t)) =>
              /\ out'.op = "create"
              /\ out'.resp = Fail(500, "No agents available")
              /\ system_state' = system_state
              /\ tickets' = tickets
              /\ req' = req]_vars

\* A creation was refused for lack of agents after the cursor had been
\* written by earlier creations.
C4_Witness ==
    /\ NoActiveAgent
    /\ out.op = "create"
    /\ out.resp.code = 500
    /\ system_state # <<>>

\* The status changes the lifecycle permits.
AllowedTransitions ==
    { <<"open", "in_progress">>, <<"open", "closed">>,
      <<"in_progress", "open">>, <<"in_progress", "closed">> }

\* C5: a ticket's status changes only along open -> {in_progress, closed}
\* and in_progress -> {open, closed}; every update-status request on a
\* closed ticket is rejected and the status stays closed.
C5_ClosedIsTerminal ==
    [][/\ \A i \in DOMAIN tickets \cap DOMAIN tickets' :
             \/ tickets'[i].status = tickets[i].status
             \/ <<tickets[i].status, tickets'[i].status>> \in AllowedTransitions
       /\ \A p \in Procs, u \in users, t \in DOMAIN tickets, s \in StatusInputs :
             (tickets[t].status = "closed" /\ UpdateTicketStatus(p, u, t, s)) =>
                 /\ req' = req
                 /\ out'.resp.code >= 400]_vars

\* The emails of the agents in the registry.
AgentEmailSet == {agents[j].email : j \in 1..Len(agents)}

\* C6: every ticket create_ticket persists has status open and exactly one
\* assigned agent: the agent the engine returned, which is an agent of the
\* active roster read by that creation; every stored ticket has an assigned
\* agent, in every reachable state.
C6_StoredAssigned ==
    /\ \A i \in DOMAIN tickets : tickets[i].assigned_to \in AgentEmailSet
    /\ \A p \in Procs :
         req[p].pc = "update_state" =>
             \E j \in 1..Len(req[p].agents) : req[p].agent = req[p].agents[j]

C6_Step ==
    /\ \A p \in Procs :
         \* the roster a creation holds is the active roster it read
         /\ (req[p].pc = "idle" /\ req'[p].pc = "find_state") =>
                req'[p].agents = Roster
         /\ (req[p].pc = "find_state" /\ req'[p].pc = "update_state") =>
                req'[p].agents = req[p].agents
         \* the ticket data carries the agent the engine returned
         /\ (req[p].pc = "update_state" /\ req'[p].pc = "insert") =>
                /\ req'[p].ticket_data.assigned_to = req[p].agent.email
                /\ req'[p].ticket_data.status = "open"
    \* a ticket enters the store as the ticket data of a creation
    /\ \A i \in DOMAIN tickets' \ DOMAIN tickets :
         \E p \in Procs :
             /\ req[p].pc = "insert"
             /\ tickets'[i] = [req[p].ticket_data EXCEPT !.id = i]
             /\ tickets'[i].status = "open"
    \* and keeps its assigned agent
    /\ \A i \in DOMAIN tickets \cap DOMAIN tickets' :
         tickets'[i].assigned_to = tickets[i].assigned_to

\* C6: the stored tickets always have an assigned agent, and every step
\* assigns and persists as stated above.
C6_AssignedFromRoster == []C6_StoredAssigned /\ [][C6_Step]_vars

\* Two stored tickets of different agents, one of them no longer active.
C6_Witness ==
    /\ {1, 2} \subseteq DOMAIN tickets
    /\ tickets[1].assigned_to # tickets[2].assigned_to
    /\ \E j \in 1..Len(agents) :
         agents[j].email = tickets[2].assigned_to /\ ~agents[j].is_active

\* What a step serving PATCH (u, t, s) with a well-formed id must have done.
UpdateOutcome(u, t, s) ==
    LET absent == t \notin DOMAIN tickets
        allowed == u.role = "admin" \/ tickets[t].created_by = u.email
        valid == s \in {"open", "in_progress", "closed"}
    IN  /\ absent => out'.resp.code = 404
        /\ (~absent /\ ~allowed) => out'.resp.code = 403
        /\ (~absent /\ allowed /\ ~valid) => out'.resp.code = 400
        /\ (~absent /\ allowed /\ valid) => out' = NoOut
        /\ out'.resp.code \in {404, 403, 400} => tickets' = tickets /\ req' = req


\* C7: update_ticket_status fails with 404 when the ticket is absent,
\* otherwise with 403 unless the requester is an administrator or the
\* ticket's creator (being the assigned agent is not enough), otherwise with
\* 400 when the new status is none of open, in_progress, closed; a failed
\* request leaves the tickets unchanged and schedules no write.
C7_UpdateFailures ==
    [][/\ out'.op = "update" =>
              \A u \in users : out'.by = u.email =>
                  \A p \in Procs, t \in IdInputs, s \in StatusInputs :
                      (ValidObjectId(t) /\ UpdateTicketStatus(p, u, t, s)) =>
                          UpdateOutcome(u, t, s)
       /\ \A p \in Procs : (Free(p) /\ req'[p].pc = "upd_write") =>
              \A u \in users :
                  UpdateTicketStatus(p, u, req'[p].tid, req'[p].new_status) =>
                      UpdateOutcome(u, req'[p].tid, req'[p].new_status)]_vars

\* The assigned agent, who is not the creator, was refused.
C7_Witness ==
    /\ out.op = "update"
    /\ out.resp.code = 403
    /\ \E i \in DOMAIN tickets :
         tickets[i].assigned_to = out.by /\ tickets[i].created_by # out.by

\* C8: delete_ticket by a requester who is no administrator (the creator and
\* the assigned agent included) fails with 403 and leaves the ticket stored;
\* by an administrator it removes the ticket if present and fails with 404
\* if absent.
C8_DeleteAdminOnly ==
    [][\A u \in users, t \in IdInputs :
          (out'.op = "delete" /\ out'.by = u.email /\ DeleteTicket(u, t)) =>
              /\ u.role # "admin" =>
                     out'.resp.code = 403 /\ tickets' = tickets
              /\ (u.role = "admin" /\ t \in DOMAIN tickets) =>
                     /\ out'.resp.code = 204
                     /\ DOMAIN tickets' = DOMAIN tickets \ {t}
                     /\ \A i \in DOMAIN tickets' : tickets'[i] = tickets[i]
              /\ (u.role = "admin" /\ ValidObjectId(t) /\ t \notin DOMAIN tickets) =>
                     out'.resp.code = 404 /\ tickets' = tickets]_vars

\* The creator was refused and the ticket is still stored.
C8_Witness ==
    /\ out.op = "delete"
    /\ out.resp.code = 403
    /\ \E i \in DOMAIN tickets : tickets[i].created_by = out.by

\* C9 as stated: the selected index is within the roster read by the same
\* assignment, and the persisted cursor never exceeds the current roster size.
C9_CursorWithinCurrentRoster ==
    /\ \A p \in Procs :
         req[p].pc = "update_state" =>
             req[p].next_index \in 0..(Len(req[p].agents) - 1)
    /\ system_state # <<>> => system_state[1].last_assigned_index <= K

\* C9 amended: the selected index is within the roster read by the same
\* assignment, the lookup never fails, and the cursor value an assignment
\* persists is below the size of the roster that assignment read.
C9_StateInRange ==
    /\ \A p \in Procs :
         req[p].pc = "update_state" =>
             /\ req[p].next_index \in 0..(Len(req[p].agents) - 1)
             /\ req[p].agent = req[p].agents[req[p].next_index + 1]
    /\ out.resp.detail # "IndexError"

C9_WriteInRange ==
    \A p \in Procs :
        (req[p].pc = "update_state" /\ req'[p].pc = "insert") =>
            /\ system_state' # <<>>
            /\ system_state'[1].last_assigned_index = req[p].next_index
            /\ system_state'[1].last_assigned_index < Len(req[p].agents)

\* C9 amended: the state part always holds and every cursor write is within
\* the roster its assignment read.
C9_IndexWithinRosterRead == []C9_StateInRange /\ [][C9_WriteInRange]_vars

\* The agent the cursor's last write selected has been deactivated since: an
\* assignment read a roster without that agent, so small that the stale
\* cursor's successor wraps around it.
C9_Witness ==
    \E p \in Procs :
        /\ req[p].pc = "update_state"
        /\ Len(log) = 1
        /\ log[1].tid \in DOMAIN tickets
        /\ \A j \in 1..Len(req[p].agents) :
             req[p].agents[j].email # tickets[log[1].tid].assigned_to
        /\ system_state[1].last_assigned_index + 1 >= Len(req[p].agents)

\* C10: a creation aborted after the cursor update and before the ticket
\* insert leaves the cursor advanced and no ticket stored, with nothing rolled
\* back; later creations continue after the skipped slot.  In sequential
\* creations against a fixed roster: the i-th cursor update, aborted or not,
\* wrote (i-1) mod K, the cursor holds the last update, a skipped update has
\* no ticket, and every other ticket belongs to the agent of its own slot.
C10_SkippedSlot ==
    /\ \A i \in 1..Len(log) : log[i].next = (i - 1) % K
    /\ (log = <<>>) = (system_state = <<>>)
    /\ log # <<>> => system_state[1].last_assigned_index = log[Len(log)].next
    /\ \A i \in Skipped : \A j \in DOMAIN tickets : tickets[j].created_at # i
    /\ \A i \in 1..Len(log) :
         log[i].tid # 0 =>
             /\ tickets[log[i].tid].created_at = i
             /\ tickets[log[i].tid].assigned_to = Roster[log[i].next + 1].email

\* Roster [A, B, C]: the first creation was aborted after its cursor update;
\* the next one is assigned B.
C10_Witness ==
    /\ K = 3
    /\ 1 \in Skipped
    /\ Len(log) >= 2
    /\ log[2].tid \in DOMAIN tickets
    /\ tickets[log[2].tid].assigned_to = "agentB@example.com"
    /\ NoneInFlight

\* C11: a successful ticket creation performs at most 3 store round-trips
\* (agent lookup, cursor update, ticket insert).
C11_CreateRoundTrips ==
    (out.op = "create" /\ out.resp.code = 200) => out.calls <= 3

\* The stored tickets a listing by requester e with parameters c has to
\* select: every filter given must hold.
Selected(e, c) ==
    {i \in DOMAIN tickets :
        /\ c.mine => (tickets[i].created_by = e \/ tickets[i].assigned_to = e)
        /\ c.status # "" => tickets[i].status = c.status
        /\ c.priority # "" => tickets[i].priority = c.priority
        /\ c.q # "" => \/ RegexSearch(c.q, tickets[i].title)
                       \/ RegexSearch(c.q, tickets[i].description)}

\* The step in which the listing in slot p fetches its page and returns.
ListReturns(p) == req[p].pc = "list_find" /\ req'[p].pc = "idle"

\* C12: list_tickets with mine=true returns only and all tickets whose
\* creator or assigned agent is the requester, with a status filter only and
\* all tickets of exactly that status, the filters combined by conjunction
\* (subject to the other filters and the page): every item is a stored
\* ticket that satisfies every filter given, no ticket is listed twice, and a
\* first page that is not full holds every such ticket.
C12_ListFilters ==
    [][\A p \in Procs : ListReturns(p) =>
          LET c == req[p].query
              sel == Selected(req[p].by, c)
              items == out'.resp.body.items
          IN  /\ c.email = req[p].by
              /\ \A k \in 1..Len(items) :
                     /\ items[k].id \in sel
                     /\ items[k] = tickets[items[k].id]
                     /\ c.mine => \/ items[k].created_by = req[p].by
                                  \/ items[k].assigned_to = req[p].by
                     /\ c.status # "" => items[k].status = c.status
              /\ \A k, l \in 1..Len(items) : items[k].id = items[l].id => k = l
              /\ (req[p].skip = 0 /\ Len(items) < req[p].page_size) =>
                     {items[k].id : k \in 1..Len(items)} = sel]_vars

\* Agent A listed their own tickets while two closed tickets were stored, one
\* of them theirs: the listing holds that ticket alone.
C12_Witness ==
    /\ out.op = "list"
    /\ out.by = "agentA@example.com"
    /\ Cardinality(DOMAIN tickets) = 2
    /\ out.resp.body.total = 1
    /\ Len(out.resp.body.items) = 1
    /\ out.resp.body.items[1].assigned_to = "agentA@example.com"
    /\ out.resp.body.items[1].status = "closed"
    /\ \E i \in DOMAIN tickets :
         tickets[i].status = "closed" /\ tickets[i].assigned_to # "agentA@example.com"

\* C13: list_tickets with page p >= 1 and page_size s returns the items at
\* positions (p-1)*s+1 .. p*s of the filtered tickets ordered by creation
\* time, latest first, never more than s items, and reports as total the
\* number of tickets matching the filter (counted by the handler's first
\* store call), with page and page_size as requested.
C13_Pagination ==
    [][\A p \in Procs :
          /\ (req[p].pc = "idle" /\ req'[p].pc = "list_find") =>
                 /\ req'[p].page >= 1
                 /\ req'[p].total =
                        Cardinality(Selected(req'[p].by, req'[p].query))
          /\ ListReturns(p) =>
                 LET sel == Selected(req[p].by, req[p].query)
                     items == out'.resp.body.items
                     s == req[p].page_size
                     before == (req[p].page - 1) * s
                     rest == Cardinality(sel) - before
                 IN  /\ Len(items) <= s
                     /\ Len(items) = IF rest <= 0 THEN 0 ELSE IF rest < s THEN rest ELSE s
                     /\ \A k \in 1..Len(items) :
                            /\ items[k].id \in sel
                            /\ Cardinality({j \in sel : tickets[j].created_at >
                                                           items[k].created_at})
                                   = before + k - 1
                     /\ out'.resp.body.total = req[p].total
                     /\ out'.resp.body.page = req[p].page
                     /\ out'.resp.body.page_size = req[p].page_size]_vars

\* Page 2 of size 1 over two matching tickets holds the second item, the
\* ticket created first.
C13_Witness ==
    /\ out.op = "list"
    /\ out.resp.body.page = 2
    /\ out.resp.body.page_size = 1
    /\ out.resp.body.total = 2
    /\ Cardinality(DOMAIN tickets) = 2
    /\ Len(out.resp.body.items) = 1
    /\ \A i \in DOMAIN tickets :
         out.resp.body.items[1].created_at <= tickets[i].created_at

\* C14: when a ticket is created and its detail is fetched with no other
\* operation on the ticket in between, the detail has the title, the
\* description, the status (open) and the assigned agent's email that the
\* creation returned: the creation returns the ticket as stored with status
\* open, the stored ticket stays as it is, and every detail returned carries
\* the stored ticket's fields and the email of its assigned agent.
C14_CreateDetailRoundTrip ==
    [][/\ \A i \in DOMAIN tickets : i \in DOMAIN tickets' /\ tickets'[i] = tickets[i]
       /\ \A p \in Procs :
             /\ (req[p].pc = "find_created" /\ req'[p].pc = "idle") =>
                    /\ out'.resp.code = 200
                    /\ out'.resp.body = tickets[req[p].tid]
                    /\ out'.resp.body.status = "open"
             /\ (req[p].pc = "detail_comments" /\ req'[p].pc = "idle") =>
                    LET detail == out'.resp.body
                        created == tickets[detail.id]
                    IN  /\ out'.resp.code = 200
                        /\ detail.title = created.title
                        /\ detail.description = created.description
                        /\ detail.status = created.status
                        /\ detail.status = "open"
                        /\ detail.assigned_to = created.assigned_to
                        /\ detail.assigned_agent.email = created.assigned_to]_vars

\* The detail of the second ticket was fetched after its creation returned;
\* its agent is B.
C14_Witness ==
    /\ out.op = "detail"
    /\ out.resp.code = 200
    /\ out.resp.body.id = 2
    /\ out.resp.body.assigned_agent.email = "agentB@example.com"
    /\ \A p \in Procs : req[p].op # "create"

\* C15: no two stored user records share an email, also after concurrent
\* signups with the same email.
C15_UniqueEmail ==
    \A u, v \in users : u.email = v.email => u = v

\* The handlers other than create_ticket.
OtherOps == {"list", "detail", "update", "delete", "signup"}

\* The step is one of a request of the other handlers.
OtherStep ==
    \/ out'.op \in OtherOps
    \/ \E p \in Procs : req'[p] # req[p] /\ req'[p].op \in OtherOps

\* The step in which the creation in slot p writes the cursor.
CursorWrite(p) == req[p].pc = "update_state" /\ req'[p].pc = "insert"

C16_Singleton == Len(system_state) <= 1

C16_Step ==
    \* only the agent selection of a creation writes the cursor
    /\ system_state' # system_state => \E p \in Procs : CursorWrite(p)
    \* the first assignment creates it, every later one rewrites it
    /\ \A p \in Procs : CursorWrite(p) =>
           system_state' = <<[last_assigned_index |-> req[p].next_index]>>
    \* it is never deleted
    /\ system_state # <<>> => system_state' # <<>>
    \* the other handlers leave it as it is
    /\ OtherStep => system_state' = system_state

\* C16: the rotation cursor is written only by agent selection during ticket
\* creation: created by the first successful assignment, rewritten by every
\* later one, never deleted, left unchanged by list_tickets,
\* get_ticket_detail, update_ticket_status, delete_ticket and signup; under
\* sequential creations there is at most one cursor record in every state.
C16_CursorFrame == []C16_Singleton /\ [][C16_Step]_vars

\* After the second assignment rewrote the cursor, a request of another
\* handler was answered and the cursor holds the second assignment's index.
C16_Witness ==
    /\ Len(log) = 2
    /\ out.op \in OtherOps
    /\ out.resp.code = 200
    /\ system_state = <<[last_assigned_index |-> log[2].next]>>

\* The store outside the request slots is as it was.
StoreUnchanged ==
    /\ tickets' = tickets
    /\ system_state' = system_state
    /\ agents' = agents
    /\ users' = users

\* C17: a malformed ticket identifier (0 here) passed to get_ticket_detail,
\* update_ticket_status or delete_ticket yields 400, never 500, and leaves the
\* store unchanged; delete_ticket checks the role first, so a requester who
\* is no administrator gets 403 whether the identifier is malformed, absent
\* or present.
C17_MalformedId ==
    [][(out'.op \in {"detail", "update", "delete"} /\ req' = req) =>
          \A u \in users : out'.by = u.email =>
              /\ \A p \in Procs :
                     (out'.op = "detail" /\ GetTicketDetail(p, u, 0)) =>
                         out'.resp.code = 400 /\ StoreUnchanged
              /\ \A p \in Procs, s \in StatusInputs :
                     (out'.op = "update" /\ UpdateTicketStatus(p, u, 0, s)) =>
                         out'.resp.code = 400 /\ StoreUnchanged
              /\ \A t \in AllIds :
                     (out'.op = "delete" /\ DeleteTicket(u, t)) =>
                         /\ u.role # "admin" =>
                                out'.resp.code = 403 /\ StoreUnchanged
                         /\ (u.role = "admin" /\ t = 0) =>
                                out'.resp.code = 400 /\ StoreUnchanged]_vars

\* With two tickets stored, an administrator's delete of a malformed
\* identifier was answered 400 without a store call.
C17_Witness ==
    /\ out.op = "delete"
    /\ out.by = "admin@example.com"
    /\ out.resp.code = 400
    /\ out.calls = 0
    /\ Cardinality(DOMAIN tickets) = 2

Statuses == {"open", "in_progress", "closed"}

\* The step in which the update in slot p writes the status.
StatusWrite(p) == req[p].pc = "upd_write" /\ req'[p].pc = "upd_refind"

C18_Stored == \A i \in DOMAIN tickets : tickets[i].status \in Statuses

C18_Step ==
    /\ \A i \in DOMAIN tickets' \ DOMAIN tickets : tickets'[i].status = "open"
    /\ \A p \in Procs : StatusWrite(p) => req[p].new_status \in Statuses
    /\ \A i \in DOMAIN tickets \cap DOMAIN tickets' :
           tickets'[i].status # tickets[i].status =>
               \E p \in Procs : StatusWrite(p) /\ tickets'[i].status = req[p].new_status

\* C18: in every reachable state every stored ticket's status is one of
\* open, in_progress, closed: creation sets open, and update_ticket_status
\* writes a status only after checking that it is one of the three.
C18_StatusEnum == []C18_Stored /\ [][C18_Step]_vars

\* A request for a status outside the three was refused while the ticket,
\* moved by an earlier update, is in progress.
C18_Witness ==
    /\ out.op = "update"
    /\ out.resp = Fail(400, "Invalid status value")
    /\ \E i \in DOMAIN tickets : tickets[i].status = "in_progress"

\* C19: after a ticket is created its title, description, creator, assigned
\* agent, priority and creation timestamp never change: update_ticket_status
\* modifies only the status field of the one ticket it names and leaves every
\* other ticket and every other field unchanged.
C19_UpdateFrame ==
    [][/\ \A i \in DOMAIN tickets \cap DOMAIN tickets' :
             /\ tickets'[i].title = tickets[i].title
             /\ tickets'[i].description = tickets[i].description
             /\ tickets'[i].created_by = tickets[i].created_by
             /\ tickets'[i].assigned_to = tickets[i].assigned_to
             /\ tickets'[i].priority = tickets[i].priority
             /\ tickets'[i].created_at = tickets[i].created_at
             /\ tickets'[i].id = tickets[i].id
       /\ \A p \in Procs : StatusWrite(p) =>
             /\ DOMAIN tickets' = DOMAIN tickets
             /\ \A i \in DOMAIN tickets :
                    tickets'[i] = IF i = req[p].tid
                                  THEN [tickets[i] EXCEPT !.status = req[p].new_status]
                                  ELSE tickets[i]]_vars

\* The update of the first of two tickets returned it closed; the second
\* ticket is still open.
C19_Witness ==
    /\ out.op = "update"
    /\ out.resp.code = 200
    /\ out.resp.body # None
    /\ out.resp.body.id = 1
    /\ out.resp.body.status = "closed"
    /\ 2 \in DOMAIN tickets
    /\ tickets[2].status = "open"

\* C20: a deleted ticket never reappears: when delete_ticket removes a ticket
\* between update_ticket_status's lookup and its write, the write does not
\* re-create the ticket (it changes nothing), and no id that was removed is
\* in the tickets collection afterwards.  Ids are handed out in order, so an
\* id below nextId that is not stored has been deleted.
C20_NoResurrection ==
    [][/\ \A t \in 1..(nextId - 1) :
             t \notin DOMAIN tickets => t \notin DOMAIN tickets'
       /\ \A p \in Procs :
             (StatusWrite(p) /\ req[p].tid \notin DOMAIN tickets) =>
                 tickets' = tickets]_vars

\* An update that passed its checks has made its write, its ticket was
\* deleted while the update was in flight, and the ticket is not stored.
C20_Witness ==
    \E p \in Procs :
        /\ req[p].pc = "upd_refind"
        /\ req[p].tid < nextId
        /\ req[p].tid \notin DOMAIN tickets

====
